---- MODULE Spec2Model ----
(***************************************************************************)
(* A model of package serrors (src/serrors.go): the Error type, its        *)
(* copy-producing methods, and its conversion to and from a gRPC status.   *)
(*                                                                         *)
(* Go pointers are heap addresses: errs is the heap of *Error objects and  *)
(* maps the heap of map[string]string objects; address 0 is nil.  A value  *)
(* of the interface type error is an ErrVal: a chain of foreign wrappers   *)
(* that ends in nil, in an *Error or in a gRPC status error.               *)
(***************************************************************************)
EXTENDS Integers, Sequences, FiniteSets, TLC

VARIABLES
    errs,   \* heap of *Error: Errcode, Errmsg, Result (a map address), cause
    maps,   \* heap of map[string]string: the entries of each map
    made,   \* history: the call that allocated each *Error, and its arguments
    last    \* the most recent step: the call, its arguments and its outcome

vars == <<errs, maps, made, last>>

-----------------------------------------------------------------------------
(* Bounds of the model. *)

MaxErrs == 3
MaxMaps == 2

-----------------------------------------------------------------------------
(* Constants of the program. *)

UnknownCode == 500
StatusOK == 200
Nil == 0

-----------------------------------------------------------------------------
(* Go's int.  TLC's integers are 32 bits wide, so a 64-bit int x is kept   *)
(* as the pair (hi, lo) with x = hi * 2^32 + lo and lo in the int32 range. *)

IntOf(n) == [hi |-> 0, lo |-> n]

\* int32(x): the conversion keeps the low 32 bits of x.
Int32(x) == x.lo

\* int(x) for an int32 x: sign extension.
IntOfInt32(x) == IntOf(x)

-----------------------------------------------------------------------------
(* Metadata: the entries of a map[string]string, a function from the keys  *)
(* present to their values.                                                *)

Keys == {"k"}
BadStr == "\\xff"
Vals == {"v", BadStr}

EmptyMeta == [k \in {} |-> ""]
Put(m, k, v) == [x \in (DOMAIN m) \cup {k} |-> IF x = k THEN v ELSE m[x]]
Delete(m, k) == [x \in (DOMAIN m) \ {k} |-> m[x]]
Metas == {EmptyMeta} \cup {Put(EmptyMeta, k, v) : k \in Keys, v \in Vals}

\* utf8.ValidString: what proto3 requires of every string field on Marshal.
ValidUTF8(s) == s # BadStr

-----------------------------------------------------------------------------
(* google.golang.org/grpc/status: a *Status is nil, or a code, a message   *)
(* and a list of details.  A nil *Status reads as code OK, message "".     *)

NilStatus == [nil |-> TRUE, code |-> "OK", msg |-> "", details |-> <<>>]
StatusNew(c, msg) == [nil |-> FALSE, code |-> c, msg |-> msg, details |-> <<>>]

ErrorInfo(md) == [kind |-> "ErrorInfo", md |-> md]
OtherDetail == [kind |-> "Other", md |-> EmptyMeta]

\* anypb.New(detail): proto.Marshal rejects a string that is not UTF-8.
Marshalable(d) ==
    \A k \in DOMAIN d.md : ValidUTF8(k) /\ ValidUTF8(d.md[k])

\* (*Status).WithDetails: (nil, error) for a status with code OK and when a
\* detail cannot be marshalled; otherwise a status with the detail appended.
WithDetails(s, d) ==
    IF s.code = "OK" \/ ~Marshalable(d)
    THEN [st |-> NilStatus, failed |-> TRUE]
    ELSE [st |-> [s EXCEPT !.details = Append(@, d)], failed |-> FALSE]

-----------------------------------------------------------------------------
(* kratos transport/http/status: the code mapper. *)

ToGRPCCode(code) ==
    IF code.hi # 0 THEN "Unknown"
    ELSE CASE code.lo = 200 -> "OK"
           [] code.lo = 400 -> "InvalidArgument"
           [] code.lo = 401 -> "Unauthenticated"
           [] code.lo = 403 -> "PermissionDenied"
           [] code.lo = 404 -> "NotFound"
           [] code.lo = 409 -> "Aborted"
           [] code.lo = 429 -> "ResourceExhausted"
           [] code.lo = 499 -> "Canceled"
           [] code.lo = 500 -> "Internal"
           [] code.lo = 501 -> "Unimplemented"
           [] code.lo = 503 -> "Unavailable"
           [] code.lo = 504 -> "DeadlineExceeded"
           [] OTHER -> "Unknown"

FromGRPCCode(c) ==
    IntOf(CASE c = "OK" -> 200
            [] c = "Canceled" -> 499
            [] c = "Unknown" -> 500
            [] c = "InvalidArgument" -> 400
            [] c = "DeadlineExceeded" -> 504
            [] c = "NotFound" -> 404
            [] c = "AlreadyExists" -> 409
            [] c = "PermissionDenied" -> 403
            [] c = "Unauthenticated" -> 401
            [] c = "ResourceExhausted" -> 429
            [] c = "FailedPrecondition" -> 400
            [] c = "Aborted" -> 409
            [] c = "OutOfRange" -> 400
            [] c = "Unimplemented" -> 501
            [] c = "Internal" -> 500
            [] c = "Unavailable" -> 503
            [] c = "DataLoss" -> 500
            [] OTHER -> 500)

-----------------------------------------------------------------------------
(* Values of the interface type error. *)

ErrNil == [wraps |-> <<>>, kind |-> "nil", addr |-> Nil, st |-> NilStatus]
Core(a) == [wraps |-> <<>>, kind |-> "core", addr |-> a, st |-> NilStatus]
StatusErr(s) == [wraps |-> <<>>, kind |-> "status", addr |-> Nil, st |-> s]
\* A foreign error whose Error() is str and whose Unwrap() is inner.
Wrap(str, inner) == [inner EXCEPT !.wraps = <<str>> \o @]
Opaque(str) == Wrap(str, ErrNil)

\* (*Status).Err(): nil for code OK (a nil *Status included).
Err(s) == IF s.code = "OK" THEN ErrNil ELSE StatusErr(s)

-----------------------------------------------------------------------------
(* The heap. *)

Addrs == 1..Len(errs)
MapAddrs == 1..Len(maps)

\* The entries read through e.Result; a nil map reads as an empty one.
MetaOf(a) == IF errs[a].Result = Nil THEN EmptyMeta ELSE maps[errs[a].Result]

\* err.Error() of a foreign error.
ErrorString(err) == IF err.wraps # <<>> THEN Head(err.wraps) ELSE ""

\* Unwrap: of a foreign wrapper its inner error, of an *Error its cause
\* (Error.Unwrap), of a status error nothing.
Unwrap(err) ==
    IF err.wraps # <<>> THEN [err EXCEPT !.wraps = Tail(@)]
    ELSE IF err.kind = "core" THEN errs[err.addr].cause
    ELSE ErrNil

\* errors.As(err, &se) for se of type *Error: the first *Error on err's chain
\* (AsBadLast: the last one).
RECURSIVE AsBadLast(_)
AsBadLast(err) ==
    IF err = ErrNil THEN [ok |-> FALSE, se |-> Nil]
    ELSE LET deeper == AsBadLast(Unwrap(err))
         IN  IF deeper.ok THEN deeper
             ELSE IF err.wraps = <<>> /\ err.kind = "core"
                  THEN [ok |-> TRUE, se |-> err.addr]
                  ELSE deeper
RECURSIVE As(_)
As(err) ==
    IF err = ErrNil THEN [ok |-> FALSE, se |-> Nil]
    ELSE IF err.wraps = <<>> /\ err.kind = "core"
         THEN [ok |-> TRUE, se |-> err.addr]
         ELSE As(Unwrap(err))

\* status.FromError(err): the status of a status error; of any other error
\* a status Unknown with err.Error() as message, and ok = false.
StatusFromError(err) ==
    IF err.wraps = <<>> /\ err.kind = "status"
    THEN [gs |-> err.st, ok |-> TRUE]
    ELSE [gs |-> StatusNew("Unknown", ErrorString(err)), ok |-> FALSE]

-----------------------------------------------------------------------------
(* The functions of the package, on Error records. *)

\* New(code, message): the Error it builds.
NewRec(code, message) ==
    [Errcode |-> Int32(code), Errmsg |-> message, Result |-> Nil, cause |-> ErrNil]

\* Clone(err) for a non-nil err; fresh is the address of the map it makes.
CloneRecBadSharesMap(rec, fresh) ==
    [Errcode |-> rec.Errcode, Errmsg |-> rec.Errmsg,
     Result |-> IF rec.Result = Nil THEN fresh ELSE rec.Result, cause |-> rec.cause]
CloneRec(rec, fresh) ==
    [Errcode |-> rec.Errcode, Errmsg |-> rec.Errmsg,
     Result |-> fresh, cause |-> rec.cause]

\* The entries Clone copies into the map it makes.
CloneMeta(md) == [k \in DOMAIN md |-> md[k]]

\* The *Status (e *Error).GRPCStatus() returns, for a non-nil e.
GRPCStatusBadNoMetadata(e) ==
    WithDetails(StatusNew(ToGRPCCode(IntOfInt32(errs[e].Errcode)), errs[e].Errmsg),
                ErrorInfo(EmptyMeta)).st
GRPCStatus(e) ==
    WithDetails(StatusNew(ToGRPCCode(IntOfInt32(errs[e].Errcode)), errs[e].Errmsg),
                ErrorInfo(MetaOf(e))).st

\* FromError's answer for an error that carries no status.
FallbackBadCode(err) == NewRec(IntOf(StatusOK), ErrorString(err))
Fallback(err) == NewRec(IntOf(UnknownCode), ErrorString(err))

\* e.Is: the comparison of the *Error found (se) with the receiver (e).
SameCodeBadAndMessage(se, e) ==
    errs[se].Errcode = errs[e].Errcode /\ errs[se].Errmsg = errs[e].Errmsg
SameCode(se, e) == errs[se].Errcode = errs[e].Errcode

\* FromError(err), given what errors.As found on err's chain: nil; or the
\* *Error found; or a new Error, with the metadata of the first ErrorInfo
\* detail when the status has one.
FromErrorGiven(err, as) ==
    LET none == [kind |-> "nil", addr |-> Nil, rec |-> NewRec(IntOf(0), ""),
                 hasInfo |-> FALSE, meta |-> EmptyMeta]
        sf == StatusFromError(err)
        infos == {i \in 1..Len(sf.gs.details) : sf.gs.details[i].kind = "ErrorInfo"}
        first == CHOOSE i \in infos : \A j \in infos : i <= j
    IN  IF err = ErrNil THEN none
        ELSE IF as.ok
        THEN [none EXCEPT !.kind = "found", !.addr = as.se, !.rec = errs[as.se]]
        ELSE IF ~sf.ok
        THEN [none EXCEPT !.kind = "new", !.rec = Fallback(err)]
        ELSE IF infos = {}
        THEN [none EXCEPT !.kind = "new",
                          !.rec = NewRec(FromGRPCCode(sf.gs.code), sf.gs.msg)]
        ELSE [none EXCEPT !.kind = "new",
                          !.rec = NewRec(FromGRPCCode(sf.gs.code), sf.gs.msg),
                          !.hasInfo = TRUE,
                          !.meta = sf.gs.details[first].md]

FromErrorResBadInnermost(err) == FromErrorGiven(err, AsBadLast(err))
FromErrorRes(err) == FromErrorGiven(err, As(err))

-----------------------------------------------------------------------------
(* The initial state and the record of a step. *)

NoCall ==
    [op |-> "none", recv |-> Nil, err |-> ErrNil, md |-> Nil, code |-> IntOf(0),
     msg |-> "", ret |-> Nil, panic |-> FALSE, ok |-> FALSE, n |-> IntOf(0),
     st |-> NilStatus, src |-> Nil]

Init ==
    /\ errs = <<>>
    /\ maps = <<>>
    /\ made = <<>>
    /\ last = NoCall

\* A call that dereferences a nil pointer: the goroutine panics, the heap is
\* as it was.
Panics(op, e) ==
    /\ last' = [NoCall EXCEPT !.op = op, !.recv = e, !.panic = TRUE]
    /\ UNCHANGED <<errs, maps, made>>

-----------------------------------------------------------------------------
(* The operations. *)

\* New(code, message)
New(code, message) ==
    /\ Len(errs) < MaxErrs
    /\ errs' = Append(errs, NewRec(code, message))
    /\ last' = [NoCall EXCEPT !.op = "New", !.code = code, !.msg = message,
                              !.ret = Len(errs) + 1]
    /\ made' = Append(made, last')
    /\ UNCHANGED maps

\* Clone(err)
Clone(e) ==
    IF e = Nil
    THEN /\ last' = [NoCall EXCEPT !.op = "Clone"]
         /\ UNCHANGED <<errs, maps, made>>
    ELSE /\ Len(errs) < MaxErrs
         /\ Len(maps) < MaxMaps
         /\ maps' = Append(maps, CloneMeta(MetaOf(e)))
         /\ errs' = Append(errs, CloneRec(errs[e], Len(maps) + 1))
         /\ last' = [NoCall EXCEPT !.op = "Clone", !.recv = e, !.ret = Len(errs) + 1]
         /\ made' = Append(made, last')

\* (e *Error).WithCause(cause): Clone(e), then the store err.cause = cause.
WithCauseBadInPlace(e, cause) ==
    IF e = Nil
    THEN Panics("WithCause", e)
    ELSE /\ Len(errs) < MaxErrs
         /\ Len(maps) < MaxMaps
         /\ maps' = Append(maps, CloneMeta(MetaOf(e)))
         /\ errs' = Append([errs EXCEPT ![e].cause = cause],
                           [CloneRec(errs[e], Len(maps) + 1) EXCEPT !.cause = cause])
         /\ last' = [NoCall EXCEPT !.op = "WithCause", !.recv = e, !.err = cause,
                                   !.ret = Len(errs) + 1]
         /\ made' = Append(made, last')
WithCause(e, cause) ==
    IF e = Nil
    THEN Panics("WithCause", e)
    ELSE /\ Len(errs) < MaxErrs
         /\ Len(maps) < MaxMaps
         /\ maps' = Append(maps, CloneMeta(MetaOf(e)))
         /\ errs' = Append(errs, [CloneRec(errs[e], Len(maps) + 1) EXCEPT !.cause = cause])
         /\ last' = [NoCall EXCEPT !.op = "WithCause", !.recv = e, !.err = cause,
                                   !.ret = Len(errs) + 1]
         /\ made' = Append(made, last')

\* (e *Error).WithMetadata(md): Clone(e), then the store err.Result = md.  The
\* map Clone made is unreachable after the store and is not kept in maps.
WithMetadataBadCopies(e, md) ==
    IF e = Nil
    THEN Panics("WithMetadata", e)
    ELSE /\ Len(errs) < MaxErrs
         /\ Len(maps) < MaxMaps
         /\ maps' = Append(maps, IF md = Nil THEN EmptyMeta ELSE CloneMeta(maps[md]))
         /\ errs' = Append(errs, CloneRec(errs[e], Len(maps) + 1))
         /\ last' = [NoCall EXCEPT !.op = "WithMetadata", !.recv = e, !.md = md,
                                   !.ret = Len(errs) + 1]
         /\ made' = Append(made, last')
WithMetadata(e, md) ==
    IF e = Nil
    THEN Panics("WithMetadata", e)
    ELSE /\ Len(errs) < MaxErrs
         /\ errs' = Append(errs, [CloneRec(errs[e], Len(maps) + 1) EXCEPT !.Result = md])
         /\ last' = [NoCall EXCEPT !.op = "WithMetadata", !.recv = e, !.md = md,
                                   !.ret = Len(errs) + 1]
         /\ made' = Append(made, last')
         /\ UNCHANGED maps

\* (e *Error).Is(err)
Is(e, err) ==
    LET as == As(err)
    IN  IF as.ok /\ e = Nil
        THEN Panics("Is", e)
        ELSE /\ last' = [NoCall EXCEPT !.op = "Is", !.recv = e, !.err = err,
                           !.ok = IF as.ok THEN SameCode(as.se, e) ELSE FALSE]
             /\ UNCHANGED <<errs, maps, made>>

\* (e *Error).GRPCStatus()
GRPCStatusCall(e) ==
    IF e = Nil
    THEN Panics("GRPCStatus", e)
    ELSE /\ last' = [NoCall EXCEPT !.op = "GRPCStatus", !.recv = e, !.st = GRPCStatus(e)]
         /\ UNCHANGED <<errs, maps, made>>

\* FromError(err).  The metadata of an ErrorInfo detail is unmarshalled into
\* a map of its own (nil when it has no entries) and attached with
\* WithMetadata; the Error built before that is unreachable and not kept.
\* src is history: the *Error whose GRPCStatus().Err() err is, or Nil.
FromError(err, src) ==
    LET r == FromErrorRes(err)
        md == IF r.hasInfo /\ r.meta # EmptyMeta THEN Len(maps) + 1 ELSE Nil
    IN  IF r.kind # "new"
        THEN /\ last' = [NoCall EXCEPT !.op = "FromError", !.err = err, !.src = src,
                                       !.ret = r.addr]
             /\ UNCHANGED <<errs, maps, made>>
        ELSE /\ Len(errs) < MaxErrs
             /\ md # Nil => Len(maps) < MaxMaps
             /\ maps' = IF md # Nil THEN Append(maps, r.meta) ELSE maps
             /\ errs' = Append(errs, IF r.hasInfo
                                     THEN [CloneRec(r.rec, Nil) EXCEPT !.Result = md]
                                     ELSE r.rec)
             /\ last' = [NoCall EXCEPT !.op = "FromError", !.err = err, !.src = src,
                                       !.ret = Len(errs) + 1]
             /\ made' = Append(made, last')

\* Code(err).  The Error FromError may build is unreachable after the call.
Code(err) ==
    /\ last' = [NoCall EXCEPT !.op = "Code", !.err = err,
                  !.n = IF err = ErrNil THEN IntOf(StatusOK)
                        ELSE IntOfInt32(FromErrorRes(err).rec.Errcode)]
    /\ UNCHANGED <<errs, maps, made>>

\* The caller makes a map, and later stores to it or deletes from it.
MakeMap(md) ==
    /\ Len(maps) < MaxMaps
    /\ maps' = Append(maps, md)
    /\ last' = [NoCall EXCEPT !.op = "map"]
    /\ UNCHANGED <<errs, made>>

MapPut(a, k, v) ==
    /\ maps' = [maps EXCEPT ![a] = Put(@, k, v)]
    /\ last' = [NoCall EXCEPT !.op = "map"]
    /\ UNCHANGED <<errs, made>>

MapDelete(a, k) ==
    /\ maps' = [maps EXCEPT ![a] = Delete(@, k)]
    /\ last' = [NoCall EXCEPT !.op = "map"]
    /\ UNCHANGED <<errs, made>>

-----------------------------------------------------------------------------
(* The inputs. *)

\* 2^32 + 404: an int that does not fit in an int32.
BigCode == [hi |-> 1, lo |-> 404]
Msgs == {"a", "b"}

Receivers == {Nil} \cup Addrs
MapArgs == {Nil} \cup MapAddrs
Cores == {Core(a) : a \in Addrs}

\* Statuses another process sent: one without details, one whose ErrorInfo
\* follows a detail of another kind and precedes a second ErrorInfo.
ForeignStatuses ==
    {StatusNew("AlreadyExists", "dup"),
     [StatusNew("NotFound", "gone") EXCEPT
        !.details = <<OtherDetail, ErrorInfo(Put(EmptyMeta, "k", "v")),
                      ErrorInfo(EmptyMeta)>>]}

\* Errors whose chain holds an *Error, or nil.
LocalErrs == {ErrNil} \cup Cores \cup {Wrap("ctx", c) : c \in Cores}
\* Errors whose chain holds no *Error and no status.
OpaqueErrs == {Opaque("boom"), Wrap("ctx", Opaque("boom"))}
\* Errors a foreign status was turned into.
ForeignErrs == {StatusErr(s) : s \in ForeignStatuses}

-----------------------------------------------------------------------------
(* The specifications. *)

\* The copy layer: New, Clone, WithCause, WithMetadata, and the caller's own
\* stores to the maps it holds.
Next ==
    \/ \E c \in {IntOf(404), IntOf(418)} : New(c, "a")
    \/ \E e \in Receivers : Clone(e)
    \/ \E e \in Addrs, c \in {ErrNil} \cup Cores : WithCause(e, c)
    \/ \E e \in Addrs, md \in MapArgs : WithMetadata(e, md)
    \/ MakeMap(EmptyMeta)
    \/ \E a \in MapAddrs, k \in Keys : MapPut(a, k, "v")
    \/ \E a \in MapAddrs, k \in Keys : MapDelete(a, k)

Spec == Init /\ [][Next]_vars

\* The wire conversions, from the state after
\*   e := New(c, "a"); m := a map literal.
InitWire ==
    \E c \in {IntOf(200), IntOf(418), BigCode}, md \in Metas :
        /\ errs = <<NewRec(c, "a")>>
        /\ maps = <<md>>
        /\ made = <<[NoCall EXCEPT !.op = "New", !.code = c, !.msg = "a", !.ret = 1]>>
        /\ last = [NoCall EXCEPT !.op = "map"]

NextWire ==
    \/ \E e \in Addrs, md \in MapArgs : WithMetadata(e, md)
    \/ \E e \in Receivers : GRPCStatusCall(e)
    \/ \E a \in Addrs : FromError(Err(GRPCStatus(a)), a)
    \/ \E err \in LocalErrs \cup OpaqueErrs \cup ForeignErrs : FromError(err, Nil)

SpecWire == InitWire /\ [][NextWire]_vars

\* Code extraction over cause chains.
NextCode ==
    \/ \E c \in {IntOf(404), IntOf(418), BigCode} : New(c, "a")
    \/ \E e \in Receivers, c \in {Opaque("boom")} \cup Cores : WithCause(e, c)
    \/ \E err \in LocalErrs : FromError(err, Nil)
    \/ \E err \in LocalErrs \cup OpaqueErrs \cup ForeignErrs : Code(err)

SpecCode == Init /\ [][NextCode]_vars

\* Matching.
NextIs ==
    \/ \E in \in {<<404, "a">>, <<404, "b">>, <<418, "a">>} : New(IntOf(in[1]), in[2])
    \/ \E e \in Addrs : WithCause(e, Opaque("boom"))
    \/ \E a \in MapAddrs, k \in Keys : MapPut(a, k, "v")
    \/ \E e \in Addrs, err \in Cores \cup {Opaque("boom")} : Is(e, err)

SpecIs == Init /\ [][NextIs]_vars

-----------------------------------------------------------------------------
(* Properties of the copy layer, under Spec. *)

\* The step allocated the *Error r by the call op.
Allocates(op, r) ==
    /\ Len(errs') = Len(errs) + 1
    /\ r = Len(errs')
    /\ made'[r].op = op

\* The step changed the entries of the map at address m.
MapChanged(m) == m \in MapAddrs /\ maps'[m] # maps[m]

\* The entries read through the *Error a after the step.
MetaOfNext(a) == IF errs'[a].Result = Nil THEN EmptyMeta ELSE maps'[errs'[a].Result]

\* C7: r = e.WithCause(c), for a non-nil e, is a new *Error with e's code and
\* message, metadata equal to e's entry for entry and Unwrap() = c; the call
\* leaves e's code, message, metadata and cause, and every other *Error and
\* every map, as they were.
C7_WithCauseCopyOnWrite ==
    [][\A r \in 1..Len(errs') :
         Allocates("WithCause", r) =>
            LET e == made'[r].recv
                c == made'[r].err
            IN  /\ e \in Addrs /\ r \notin Addrs
                /\ errs'[r].Errcode = errs[e].Errcode
                /\ errs'[r].Errmsg = errs[e].Errmsg
                /\ MetaOfNext(r) = MetaOf(e)
                /\ Unwrap(Core(r))' = c
                /\ \A a \in Addrs : errs'[a] = errs[a] /\ MetaOfNext(a) = MetaOf(a)
                /\ \A m \in MapAddrs : maps'[m] = maps[m]]_vars

\* C7's case: WithCause gave an *Error a cause its receiver does not have.
C7_Witness ==
    /\ last.op = "WithCause" /\ ~last.panic
    /\ errs[last.ret].cause = Core(1)
    /\ errs[last.recv].cause = ErrNil
    /\ MetaOf(last.recv) # EmptyMeta

\* C8: Clone(nil) is nil.  For a non-nil e, c = Clone(e) is another *Error
\* with e's code, message and cause, whose map is newly allocated and holds
\* e's entries; and from then on a step that changes the entries of c's map
\* leaves e's metadata as it was, and a step that changes the entries of e's
\* map leaves c's metadata as it was.
C8_CloneIsolation ==
    [][/\ (last'.op = "Clone" /\ last'.recv = Nil) =>
            /\ last'.ret = Nil /\ ~last'.panic
            /\ UNCHANGED <<errs, maps>>
       /\ \A c \in 1..Len(errs') :
            Allocates("Clone", c) =>
               LET e == made'[c].recv
               IN  /\ e \in Addrs /\ c # e /\ last'.ret = c
                   /\ errs'[c].Errcode = errs[e].Errcode
                   /\ errs'[c].Errmsg = errs[e].Errmsg
                   /\ errs'[c].cause = errs[e].cause
                   /\ errs'[c].Result \in (1..Len(maps')) \ MapAddrs
                   /\ \A a \in Addrs : errs'[a].Result # errs'[c].Result
                   /\ MetaOfNext(c) = MetaOf(e)
                   /\ MetaOfNext(e) = MetaOf(e)
       /\ \A c \in Addrs :
            made[c].op = "Clone" =>
               LET e == made[c].recv
               IN  /\ MapChanged(errs[c].Result) => MetaOfNext(e) = MetaOf(e)
                   /\ MapChanged(errs[e].Result) => MetaOfNext(c) = MetaOf(c)]_vars

\* C8's case: after Clone, stores to both maps have made the metadata of the
\* clone and of the original differ.
C8_Witness ==
    \E c \in Addrs :
        /\ made[c].op = "Clone"
        /\ errs[made[c].recv].Result # Nil
        /\ MetaOf(c) = EmptyMeta
        /\ MetaOf(made[c].recv) # EmptyMeta
        /\ last.op = "map"

\* The *Errors r = e.WithMetadata(m) made so far, for a non-nil map m.
Adoptions == {r \in Addrs : made[r].op = "WithMetadata" /\ made[r].md # Nil}

\* C9 as amended: r = e.WithMetadata(m) is a new *Error with e's code,
\* message and cause whose Result is the map m itself, whatever e's metadata
\* was; the call leaves e and every map as they were.  From then on every
\* change of m's entries shows through r, and it shows through e only if
\* e.Result was m already before the call.
C9_AdoptsByReference ==
    [][/\ \A r \in 1..Len(errs') :
            Allocates("WithMetadata", r) =>
               LET e == made'[r].recv
                   m == made'[r].md
               IN  /\ e \in Addrs /\ r # e /\ last'.ret = r
                   /\ errs'[r].Result = m
                   /\ MetaOfNext(r) = IF m = Nil THEN EmptyMeta ELSE maps[m]
                   /\ errs'[r].Errcode = errs[e].Errcode
                   /\ errs'[r].Errmsg = errs[e].Errmsg
                   /\ errs'[r].cause = errs[e].cause
                   /\ errs'[e] = errs[e]
                   /\ maps' = maps
       /\ \A r \in Adoptions :
            LET e == made[r].recv
                m == made[r].md
            IN  /\ errs'[r].Result = m
                /\ MetaOfNext(r) = maps'[m]
                /\ (MapChanged(m) /\ errs[e].Result # m) => MetaOfNext(e) = MetaOf(e)]_vars

\* C9 as claimed: no later change of m's entries ever shows through e.
C9_OriginalNeverObserves ==
    [][\A r \in Adoptions :
         MapChanged(made[r].md) => MetaOfNext(made[r].recv) = MetaOf(made[r].recv)]_vars

\* C9's case: the caller stored to m after r = e.WithMetadata(m), where e had
\* entries of its own; r shows the store and e does not.
C9_Witness ==
    \E r \in Adoptions :
        /\ last.op = "map"
        /\ errs[made[r].recv].Result \notin {Nil, made[r].md}
        /\ MetaOf(r) = EmptyMeta
        /\ MetaOf(made[r].recv) # EmptyMeta

-----------------------------------------------------------------------------
(* Properties of the wire conversions, under SpecWire. *)

\* The step just taken was FromError(e.GRPCStatus().Err()) for the *Error e.
RoundTripOf(e) == last.op = "FromError" /\ last.src = e /\ e # Nil

\* The wire code of the *Error e.
WireCodeOf(e) == ToGRPCCode(IntOfInt32(errs[e].Errcode))

\* What the round trip of e is claimed to give: an *Error with e's code sent
\* through the mapper and back, e's message and e's entries.
RoundTripResult(e) ==
    /\ last.ret # Nil
    /\ IntOfInt32(errs[last.ret].Errcode) = FromGRPCCode(WireCodeOf(e))
    /\ errs[last.ret].Errmsg = errs[e].Errmsg
    /\ MetaOf(last.ret) = MetaOf(e)

\* The ErrorInfo detail can be attached to e's status: the wire code is not
\* OK and every key and value of e's metadata is valid UTF-8.
Attachable(e) ==
    /\ WireCodeOf(e) # "OK"
    /\ \A k \in DOMAIN MetaOf(e) : ValidUTF8(k) /\ ValidUTF8(MetaOf(e)[k])

\* C1 as claimed: the round trip gives that result for every *Error.
C1_OriginalRoundTrip ==
    \A e \in Addrs : RoundTripOf(e) => RoundTripResult(e)

\* C1 as amended: the round trip gives that result for every *Error whose
\* wire code is not OK and whose metadata is valid UTF-8.
C1_RoundTrip ==
    \A e \in Addrs : (RoundTripOf(e) /\ Attachable(e)) => RoundTripResult(e)

\* C1's case: the round trip of r = e.WithMetadata(m), m with an entry, with a
\* code the mapper does not send back to itself.
C1_Witness ==
    \E e \in Addrs :
        /\ RoundTripOf(e) /\ Attachable(e)
        /\ made[e].op = "WithMetadata"
        /\ MetaOf(e) # EmptyMeta
        /\ errs[e].Errcode = 418
        /\ errs[last.ret].Errcode = 500
        /\ errs[last.ret].Result \notin {Nil, errs[e].Result}

\* C3: when the ErrorInfo detail cannot be attached, e.GRPCStatus() is still
\* a non-nil status with e's wire code and e's message.
C3_DegradesGracefully ==
    (last.op = "GRPCStatus" /\ last.recv # Nil /\ ~Attachable(last.recv)) =>
        /\ ~last.st.nil
        /\ last.st.code = WireCodeOf(last.recv)
        /\ last.st.msg = errs[last.recv].Errmsg

\* C10: for a non-nil error with no *Error and no status on its chain,
\* FromError returns a new *Error with code 500, the error's Error() as
\* message, no metadata and no cause.
C10_InboundFallback ==
    (last.op = "FromError" /\ last.err.kind = "nil" /\ last.err.wraps # <<>>) =>
        /\ last.ret = Len(errs) /\ made[last.ret] = last
        /\ errs[last.ret].Errcode = 500
        /\ errs[last.ret].Errmsg = Head(last.err.wraps)
        /\ MetaOf(last.ret) = EmptyMeta
        /\ errs[last.ret].cause = ErrNil

\* C10's case: FromError of a foreign error that wraps another foreign error.
C10_Witness ==
    /\ last.op = "FromError"
    /\ last.err = Wrap("ctx", Opaque("boom"))
    /\ errs[last.ret].Errmsg = "ctx"

-----------------------------------------------------------------------------
(* Properties of construction and code extraction, under SpecCode. *)

\* C2: FromError(New(code, message)) has the code and the message New was
\* given, for every int code.
C2_LocalRoundTrip ==
    \A a \in Addrs :
        (last.op = "FromError" /\ last.err = Core(a) /\ made[a].op = "New") =>
            /\ last.ret # Nil
            /\ IntOfInt32(errs[last.ret].Errcode) = made[a].code
            /\ errs[last.ret].Errmsg = made[a].msg

\* C4: no call panics.
C4_Totality == ~last.panic

\* The errors on err's chain, outermost first.
RECURSIVE ChainOf(_)
ChainOf(err) == IF err = ErrNil THEN <<>> ELSE <<err>> \o ChainOf(Unwrap(err))

IsCore(err) == err.wraps = <<>> /\ err.kind = "core"
IsStatus(err) == err.wraps = <<>> /\ err.kind = "status"

\* The code err stands for: 200 for nil; the code of the first *Error on its
\* chain when there is one; else the code its status maps back to; else 500.
ExpectedCode(err) ==
    LET chain == ChainOf(err)
        cores == {i \in 1..Len(chain) : IsCore(chain[i])}
    IN  IF err = ErrNil THEN 200
        ELSE IF cores # {}
        THEN errs[chain[CHOOSE i \in cores : \A j \in cores : i <= j].addr].Errcode
        ELSE IF IsStatus(err) THEN FromGRPCCode(err.st.code).lo
        ELSE 500

\* C5: Code(err) is that code.
C5_CodeExtraction ==
    last.op = "Code" => last.n = IntOf(ExpectedCode(last.err))

\* C5's case: Code of a foreign error that wraps an *Error whose cause is an
\* *Error with another code.
C5_Witness ==
    /\ last.op = "Code"
    /\ last.err.wraps # <<>>
    /\ \E i, j \in 1..Len(ChainOf(last.err)) :
          LET chain == ChainOf(last.err)
          IN  /\ i < j /\ IsCore(chain[i]) /\ IsCore(chain[j])
              /\ errs[chain[i].addr].Errcode # errs[chain[j].addr].Errcode
              /\ last.n = IntOf(errs[chain[i].addr].Errcode)

-----------------------------------------------------------------------------
(* Properties of matching, under SpecIs. *)

\* C6: for two *Errors e1 and e2, e1.Is(e2) is true exactly when their codes
\* are equal.
C6_CoarseEquality ==
    \A e1, e2 \in Addrs :
        (last.op = "Is" /\ last.recv = e1 /\ last.err = Core(e2)) =>
            /\ ~last.panic
            /\ last.ok <=> (errs[e1].Errcode = errs[e2].Errcode)

\* C6's case: two *Errors with one code that differ in message, metadata and
\* cause match.
C6_Witness ==
    \E e1, e2 \in Addrs :
        /\ last.op = "Is" /\ last.recv = e1 /\ last.err = Core(e2)
        /\ last.ok
        /\ errs[e1].Errmsg # errs[e2].Errmsg
        /\ MetaOf(e1) # MetaOf(e2)
        /\ errs[e1].cause # errs[e2].cause

====
